---- MODULE Spec2Model ----
(***************************************************************************)
(* A model of src/main.py of my-hacker-news-rss: the keyword sources, the  *)
(* whole-word keyword matcher, the story selection loop, the top-comment   *)
(* lookup and the feed entries built from the selected stories.            *)
(*                                                                         *)
(* Texts that the matcher and the loaders look into are sequences of       *)
(* one-character strings; urls, comment texts and summaries, which the     *)
(* code only compares, tests for truth and concatenates, are strings.      *)
(***************************************************************************)
EXTENDS Integers, Sequences, FiniteSets, TLC

VARIABLES
    pc,               \* position of the run / of the call under study
    text,             \* matches_keyword: its text argument
    keyword,          \* matches_keyword: its keyword argument
    matched,          \* matches_keyword: its result
    args,             \* main: the parsed arguments (parse_args' Namespace)
    source_read,      \* what the consulted keyword source held
    loader_calls,     \* the loaders main has called, in order
    keywords,         \* main: the local `keywords`
    remote,           \* which item shapes the remote API may answer with
    top_ids,          \* main: the local `top_ids`
    idx,              \* filter_stories / generate_rss: the loop position
    story_responses,  \* what fetch_story_details returned, per candidate
    filtered_stories, \* filter_stories: the local `filtered_stories`
    comment_results,  \* per story of generate_rss: the fetch_top_comment call
    entries,          \* generate_rss: the feed entries added so far
    calls,            \* every requests.get made so far, in order
    raised,           \* the exception that ended the run, or None
    feed_written      \* whether fg.rss_file has run

vars == <<pc, text, keyword, matched, args, source_read, loader_calls, keywords,
          remote, top_ids, idx, story_responses, filtered_stories,
          comment_results, entries, calls, raised, feed_written>>

match_vars == <<text, keyword, matched>>
source_vars == <<args, source_read, loader_calls>>
pipeline_vars == <<remote, top_ids, idx, story_responses, filtered_stories,
                   comment_results, entries, calls, raised, feed_written>>

(***************************************************************************)
(* Bounds of the model.                                                    *)
(***************************************************************************)
MaxTextLen == 4      \* longest text handed to matches_keyword
MaxKeywordLen == 2   \* longest keyword handed to matches_keyword
MaxSourceLen == 4    \* longest keywords file / environment value
MaxArgs == 2         \* most words after --keywords
MaxIds == 2          \* most ids in the top-stories answer

(***************************************************************************)
(* Python values.                                                          *)
(***************************************************************************)
None == "None"

\* dict: `key in d`
Has(d, key) == key \in DOMAIN d

\* dict.get(key, default)
Get(d, key, default) == IF Has(d, key) THEN d[key] ELSE default

\* truth value of a str-or-None
Truthy(v) == v # None /\ v # ""

\* the dict without keys, and the dicts {} and {key: v} for v in S
EmptyDict == [k \in {} |-> None]
Optional(key, S) == {EmptyDict} \cup {key :> v : v \in S}

\* all sequences over S of length lo..hi
SeqsOf(S, lo, hi) == UNION {[1..n -> S] : n \in lo..hi}

(***************************************************************************)
(* Characters.  \w is a letter, a digit or the underscore; re.IGNORECASE   *)
(* compares letters by their case-folded form.                             *)
(***************************************************************************)
Letters == {"a", "A", "b", "B"}
WordChars == Letters \cup {"1", "_"}
Whitespace == {" ", "\n"}
Chars == WordChars \cup Whitespace \cup {"+", ","}

Lower(c) == CASE c = "A" -> "a" [] c = "B" -> "b" [] OTHER -> c

\* str.strip(): leading and trailing whitespace removed
RECURSIVE LStrip(_)
LStrip(s) == IF s # <<>> /\ Head(s) \in Whitespace THEN LStrip(Tail(s)) ELSE s

RECURSIVE RStrip(_)
RStrip(s) ==
    IF s # <<>> /\ s[Len(s)] \in Whitespace
    THEN RStrip(SubSeq(s, 1, Len(s) - 1))
    ELSE s

strip(s) == RStrip(LStrip(s))

(***************************************************************************)
(* matches_keyword: r"\b" + re.escape(keyword) + r"\b", searched in text   *)
(* with re.IGNORECASE.  A pattern is a sequence of tokens: the assertion   *)
(* \b and literal characters (re.escape turns every character of the       *)
(* keyword, metacharacters included, into a literal).                      *)
(***************************************************************************)
WordBoundaryToken == [kind |-> "b", ch |-> ""]
Literal(c) == [kind |-> "lit", ch |-> c]

re_escape(s) == [k \in 1..Len(s) |-> Literal(s[k])]

\* whether the character at 1-based index i of t exists and is a \w
IsWordAt(t, i) == i \in 1..Len(t) /\ t[i] \in WordChars

\* \b holds between index p and p+1 of t (p in 0..Len(t)): exactly one side is \w
AtWordBoundary(t, p) == IsWordAt(t, p) # IsWordAt(t, p + 1)

\* the pattern pat[k..] matches t starting after the first p characters
RECURSIVE MatchFrom(_, _, _, _)
MatchFrom(pat, k, t, p) ==
    IF k > Len(pat) THEN TRUE
    ELSE IF pat[k].kind = "b"
         THEN AtWordBoundary(t, p) /\ MatchFrom(pat, k + 1, t, p)
         ELSE /\ p + 1 <= Len(t)
              /\ Lower(t[p + 1]) = Lower(pat[k].ch)
              /\ MatchFrom(pat, k + 1, t, p + 1)

\* bool(re.search(pattern, text, re.IGNORECASE))
re_search(pat, t) == \E p \in 0..Len(t) : MatchFrom(pat, 1, t, p)

matches_keyword(t, kw) ==
    re_search(<<WordBoundaryToken>> \o re_escape(kw) \o <<WordBoundaryToken>>, t)

(***************************************************************************)
(* MatchSpec: one call of matches_keyword on any text and keyword.         *)
(***************************************************************************)
MatchTexts == SeqsOf(Chars \ {"\n", ",", "B"}, 0, MaxTextLen)
MatchKeywords == SeqsOf(Chars \ {"\n", ",", "B"}, 1, MaxKeywordLen)

\* what a keyword source held: the status of the read and the text read
Unread == [status |-> "unread", content |-> <<>>]
ReadOk(s) == [status |-> "ok", content |-> s]
ReadFailed(why) == [status |-> why, content |-> <<>>]

IdleSource ==
    /\ args = EmptyDict
    /\ source_read = Unread
    /\ loader_calls = <<>>

IdlePipeline ==
    /\ remote = "conforming"
    /\ top_ids = <<>>
    /\ idx = 0
    /\ story_responses = <<>>
    /\ filtered_stories = <<>>
    /\ comment_results = <<>>
    /\ entries = <<>>
    /\ calls = <<>>
    /\ raised = None
    /\ feed_written = FALSE

MatchInit ==
    /\ pc = "match_call"
    /\ text \in MatchTexts
    /\ keyword \in MatchKeywords
    /\ matched = FALSE
    /\ keywords = <<>>
    /\ IdleSource
    /\ IdlePipeline

MatchCall ==
    /\ pc = "match_call"
    /\ matched' = matches_keyword(text, keyword)
    /\ pc' = "match_done"
    /\ UNCHANGED <<text, keyword, keywords, source_vars, pipeline_vars>>

MatchNext == MatchCall

MatchSpec == MatchInit /\ [][MatchNext]_vars

\* the keyword, compared case-insensitively, is the part of t after its first p characters
OccursAt(t, kw, p) ==
    /\ p + Len(kw) <= Len(t)
    /\ \A k \in 1..Len(kw) : Lower(t[p + k]) = Lower(kw[k])

\* C2: matches_keyword(T, K) is true exactly when K occurs in T, ignoring case,
\* at a position where the character before and the character after the
\* occurrence are each missing or not a letter, digit or underscore.
C2_WholeWordIff ==
    pc = "match_done" =>
        (matched <=>
            \E p \in 0..Len(text) :
                /\ OccursAt(text, keyword, p)
                /\ ~IsWordAt(text, p)
                /\ ~IsWordAt(text, p + Len(keyword) + 1))

(***************************************************************************)
(* The keyword sources.                                                    *)
(***************************************************************************)
FileNotFound == ReadFailed("FileNotFoundError")
ReadError == ReadFailed("Exception")
EnvUnset == ReadFailed("unset")

\* iterating a text file: its lines, each with its line end kept
RECURSIVE Lines(_)
Lines(s) ==
    IF s = <<>> THEN <<>>
    ELSE LET ends == {i \in 1..Len(s) : s[i] = "\n"}
         IN  IF ends = {} THEN <<s>>
             ELSE LET e == CHOOSE i \in ends : \A j \in ends : i <= j
                  IN  <<SubSeq(s, 1, e)>> \o Lines(SubSeq(s, e + 1, Len(s)))

\* str.split(sep) for a one-character sep: never empty, empty pieces kept
RECURSIVE split(_, _)
split(s, sep) ==
    LET at == {i \in 1..Len(s) : s[i] = sep}
    IN  IF at = {} THEN <<s>>
        ELSE LET e == CHOOSE i \in at : \A j \in at : i <= j
             IN  <<SubSeq(s, 1, e - 1)>> \o split(SubSeq(s, e + 1, Len(s)), sep)

\* [x.strip() for x in pieces if x.strip()]
StrippedNonEmpty(pieces) ==
    SelectSeq([k \in 1..Len(pieces) |-> strip(pieces[k])], LAMBDA x : x # <<>>)

\* load_keywords_from_file, given what open/read gave: an error or the content
load_keywords_from_file(outcome) ==
    IF outcome.status # "ok" THEN <<>>
    ELSE StrippedNonEmpty(Lines(outcome.content))

\* load_keywords_from_env, given os.environ.get(name): unset (None) or the value
load_keywords_from_env(env_val) ==
    IF env_val.status = "ok" /\ env_val.content # <<>>
    THEN StrippedNonEmpty(split(env_val.content, ","))
    ELSE <<>>

\* truth value of an attribute of the Namespace (an option not given is None,
\* here a key the dict lacks): given, and neither [] nor ""
ArgGiven(a, key) == Has(a, key) /\ Len(a[key]) > 0

\* a variant of the chain below that tests the variable before the file
KeywordSourceEnvFirst(a) ==
    IF ArgGiven(a, "keywords") THEN "args"
    ELSE IF ArgGiven(a, "keywords_env") THEN "env"
    ELSE IF ArgGiven(a, "keywords_file") THEN "file"
    ELSE "none"

\* the if / elif chain of main
KeywordSource(a) ==
    IF ArgGiven(a, "keywords") THEN "args"
    ELSE IF ArgGiven(a, "keywords_file") THEN "file"
    ELSE IF ArgGiven(a, "keywords_env") THEN "env"
    ELSE "none"

(***************************************************************************)
(* SourceSpec: main from parse_args to the call of fetch_top_stories, for  *)
(* every Namespace and every content of the file and of the variable.      *)
(***************************************************************************)
ArgWords == SeqsOf({"a", "b", " "}, 0, 2)
ArgLists == SeqsOf(ArgWords, 1, MaxArgs)
FileContents == SeqsOf({"a", "b", " ", "\n"}, 0, MaxSourceLen)
EnvValues == SeqsOf({"a", "b", " ", ","}, 0, MaxSourceLen)
FilePaths == {"", "keywords.txt"}
EnvNames == {"", "HN_KEYWORDS"}

SourceInit ==
    /\ pc = "resolve_keywords"
    /\ args \in {k @@ f @@ e : k \in Optional("keywords", ArgLists),
                                f \in Optional("keywords_file", FilePaths),
                                e \in Optional("keywords_env", EnvNames)}
    /\ source_read = Unread
    /\ loader_calls = <<>>
    /\ keywords = <<>>
    /\ text = <<>> /\ keyword = <<>> /\ matched = FALSE
    /\ IdlePipeline

\* main: `if args.keywords:`
UseArgs ==
    /\ pc = "resolve_keywords"
    /\ KeywordSource(args) = "args"
    /\ keywords' = args.keywords
    /\ pc' = "fetch_top"
    /\ UNCHANGED <<args, source_read, loader_calls, match_vars, pipeline_vars>>

\* main: `elif args.keywords_file:`
UseFile ==
    /\ pc = "resolve_keywords"
    /\ KeywordSource(args) = "file"
    /\ \E outcome \in {FileNotFound, ReadError} \cup {ReadOk(s) : s \in FileContents} :
        /\ source_read' = outcome
        /\ keywords' = load_keywords_from_file(outcome)
    /\ loader_calls' = Append(loader_calls, <<"load_keywords_from_file", args.keywords_file>>)
    /\ pc' = "fetch_top"
    /\ UNCHANGED <<args, match_vars, pipeline_vars>>

\* main: `elif args.keywords_env:`
UseEnv ==
    /\ pc = "resolve_keywords"
    /\ KeywordSource(args) = "env"
    /\ \E env_val \in {EnvUnset} \cup {ReadOk(s) : s \in EnvValues} :
        /\ source_read' = env_val
        /\ keywords' = load_keywords_from_env(env_val)
    /\ loader_calls' = Append(loader_calls, <<"load_keywords_from_env", args.keywords_env>>)
    /\ pc' = "fetch_top"
    /\ UNCHANGED <<args, match_vars, pipeline_vars>>

\* main: `else:`
UseNone ==
    /\ pc = "resolve_keywords"
    /\ KeywordSource(args) = "none"
    /\ keywords' = <<>>
    /\ pc' = "fetch_top"
    /\ UNCHANGED <<args, source_read, loader_calls, match_vars, pipeline_vars>>

SourceNext == UseArgs \/ UseFile \/ UseEnv \/ UseNone

SourceSpec == SourceInit /\ [][SourceNext]_vars

\* C3: one keyword source at most is consulted, by the precedence explicit
\* list > file path > environment variable > none: with an explicit list no
\* loader is called, with a file path (and no list) only the file loader is,
\* with neither only the environment loader is, and with none configured no
\* loader is called and the keywords are empty; the keywords handed on are
\* exactly what the chosen source produced.
C3_SourcePrecedence ==
    pc = "fetch_top" =>
        IF ArgGiven(args, "keywords")
        THEN loader_calls = <<>> /\ keywords = args.keywords
        ELSE IF ArgGiven(args, "keywords_file")
        THEN /\ loader_calls = <<<<"load_keywords_from_file", args.keywords_file>>>>
             /\ keywords = load_keywords_from_file(source_read)
        ELSE IF ArgGiven(args, "keywords_env")
        THEN /\ loader_calls = <<<<"load_keywords_from_env", args.keywords_env>>>>
             /\ keywords = load_keywords_from_env(source_read)
        ELSE loader_calls = <<>> /\ keywords = <<>>

\* C3's case: a list, a file and a variable are all configured, and the run
\* went on to the fetch without calling a loader
C3_Witness ==
    /\ pc = "fetch_top"
    /\ ArgGiven(args, "keywords")
    /\ ArgGiven(args, "keywords_file")
    /\ ArgGiven(args, "keywords_env")
    /\ keywords = args.keywords
    /\ Len(keywords) = 2

\* the pieces of s between its separators, by position: piece k lies between
\* the (k-1)-th and the k-th separator
PieceOf(s, seps, k) ==
    LET before == {i \in 1..Len(s) : s[i] \in seps}
        nth(n) == IF n = 0 THEN 0
                  ELSE IF n > Cardinality(before) THEN Len(s) + 1
                  ELSE CHOOSE i \in before : Cardinality({j \in before : j <= i}) = n
    IN  SubSeq(s, nth(k - 1) + 1, nth(k) - 1)

\* a keyword is trimmed: not empty, no whitespace at either end
IsTrimmed(k) == k # <<>> /\ k[1] \notin Whitespace /\ k[Len(k)] \notin Whitespace

\* what the claim expects of a source text: its non-blank pieces, trimmed, in order
ExpectedKeywords(s, seps) ==
    LET n == Cardinality({i \in 1..Len(s) : s[i] \in seps}) + 1
        pieces == [k \in 1..n |-> PieceOf(s, seps, k)]
        kept == SelectSeq(pieces, LAMBDA x : \E i \in 1..Len(x) : x[i] \notin Whitespace)
    IN  [k \in 1..Len(kept) |->
            LET x == kept[k]
                ink == {i \in 1..Len(x) : x[i] \notin Whitespace}
                lo == CHOOSE i \in ink : \A j \in ink : i <= j
                hi == CHOOSE i \in ink : \A j \in ink : i >= j
            IN  SubSeq(x, lo, hi)]

\* the file and the variable channels of C9: trimmed non-empty keywords, in
\* source order, duplicates kept; nothing from a missing file or variable
C9_FromFileOrEnv ==
    pc = "fetch_top" =>
        /\ KeywordSource(args) = "file" =>
            keywords = IF source_read.status # "ok" THEN <<>>
                       ELSE ExpectedKeywords(source_read.content, {"\n"})
        /\ KeywordSource(args) = "env" =>
            keywords = IF source_read.status # "ok" THEN <<>>
                       ELSE ExpectedKeywords(source_read.content, {","})

\* C9: whichever channel supplied them, the keywords that reach filter_stories
\* are non-empty strings without leading or trailing whitespace, in source
\* order with duplicates kept.
C9_KeywordsTrimmed ==
    /\ pc = "fetch_top" => \A k \in 1..Len(keywords) : IsTrimmed(keywords[k])
    /\ C9_FromFileOrEnv

(***************************************************************************)
(* The remote API.  An item is a dict; a key it lacks is an absent field.  *)
(* A requests.get either raises a requests.RequestException (timeout,      *)
(* connection error, or the error status raise_for_status turns into one)  *)
(* or gives the decoded body.                                              *)
(***************************************************************************)
HN_ITEM_URL == "https://news.ycombinator.com/item?id="
Limit == 100
StoryTime == 1609459200

\* a fetch that returned None
NoneDict == [none |-> TRUE]

Failed(body) == [failed |-> TRUE, body |-> body]
Answered(body) == [failed |-> FALSE, body |-> body]

StoryIds == {1, 2}
TitleMatching == <<"A", " ", "1">>
TitleOther == <<"A", "b">>
StoryTitles == {TitleMatching, TitleOther}
ArticleUrl == "http://example.com/article"

\* f"https://news.ycombinator.com/item?id={story.get('id')}"
ItemUrl(story) == HN_ITEM_URL \o (IF Has(story, "id") THEN ToString(story.id) ELSE None)

KidsOf(id) == <<10 * id + 1, 10 * id + 2>>

\* items as the API documents them: id and time always there; title, url and
\* kids may be missing, and url may be empty or the discussion page itself
ConformingItems(id) ==
    {[id |-> id, time |-> StoryTime] @@ t @@ u @@ k :
        t \in Optional("title", StoryTitles),
        u \in Optional("url", {"", ArticleUrl, HN_ITEM_URL \o ToString(id)}),
        k \in Optional("kids", {<<>>, KidsOf(id)})}

\* items of any shape: each of id, title, time and url there or not
ArbitraryItems(id) ==
    {i @@ t @@ tm @@ u :
        i \in Optional("id", {id}),
        t \in Optional("title", StoryTitles),
        tm \in Optional("time", {StoryTime}),
        u \in Optional("url", {ArticleUrl})}

StoryItems(shape, id) ==
    IF shape = "conforming" THEN ConformingItems(id) ELSE ArbitraryItems(id)

CommentText(cid) == "comment " \o ToString(cid)

CommentItems(cid) ==
    {[id |-> cid, by |-> "user"] @@ t : t \in Optional("text", {"", CommentText(cid)})}

Take(s, n) == SubSeq(s, 1, IF n < Len(s) THEN n ELSE Len(s))

\* a variant of fetch_top_stories that uses the body whatever the request did
fetch_top_stories_unchecked(outcome, limit) == Take(outcome.body, limit)

\* fetch_top_stories, given how the request went
fetch_top_stories(outcome, limit) ==
    IF outcome.failed THEN <<>> ELSE Take(outcome.body, limit)

\* fetch_story_details, given how the request went
fetch_story_details(outcome) ==
    IF outcome.failed THEN NoneDict ELSE outcome.body

\* fetch_comment_details, given how the request went
fetch_comment_details(outcome) ==
    IF outcome.failed THEN NoneDict ELSE outcome.body

\* truth value of a dict-or-None
TruthyDict(d) == d # NoneDict /\ DOMAIN d # {}

(***************************************************************************)
(* filter_stories, one candidate at a time.                                *)
(***************************************************************************)
\* `if not story or "title" not in story: continue`
Skipped(story) == ~TruthyDict(story) \/ ~Has(story, "title")

\* `if "url" not in story:` needs story['id'] and raises KeyError without it
BackfillRaises(story) == ~Has(story, "url") /\ ~Has(story, "id")

\* story["url"] = f"https://news.ycombinator.com/item?id={story['id']}" when url is missing
Backfilled(story) ==
    IF Has(story, "url") THEN story
    ELSE story @@ ("url" :> HN_ITEM_URL \o ToString(story.id))

\* a variant of the test below that wants every keyword to match
SelectedByAll(title, kws) ==
    kws # <<>> /\ \A k \in 1..Len(kws) : matches_keyword(title, kws[k])

\* `not keywords or any(matches_keyword(title, keyword) for keyword in keywords)`
Selected(title, kws) ==
    kws = <<>> \/ \E k \in 1..Len(kws) : matches_keyword(title, kws[k])

(***************************************************************************)
(* fetch_top_comment and the entry summary of generate_rss.                *)
(***************************************************************************)
\* story.get("kids", [])
Kids(story) == Get(story, "kids", <<>>)

\* variants of the requests below: every kid, and the last kid
CommentRequestsAllKids(story) == Kids(story)

CommentRequestsLastKid(story) ==
    IF Kids(story) = <<>> THEN <<>> ELSE <<Kids(story)[Len(Kids(story))]>>

\* the comment ids fetch_top_comment asks for: none, or kids[0] alone
CommentRequests(story) ==
    IF Kids(story) = <<>> THEN <<>> ELSE <<Kids(story)[1]>>

\* fetch_top_comment, given what fetch_comment_details returned (if it was called)
fetch_top_comment(story, comment) ==
    IF Kids(story) = <<>> THEN None
    ELSE IF TruthyDict(comment) /\ Has(comment, "text") THEN comment.text
    ELSE None

\* a variant of the summary below without the test against the discussion url
SummaryAnyUrl(top_comment, original_url, comments_url) ==
    IF Truthy(top_comment) THEN top_comment
    ELSE IF Truthy(original_url) THEN "Article: " \o original_url
    ELSE "Comments: " \o comments_url

\* the description of an entry: lines 153-161
Summary(top_comment, original_url, comments_url) ==
    IF Truthy(top_comment) THEN top_comment
    ELSE IF Truthy(original_url) /\ original_url # comments_url
         THEN "Article: " \o original_url
    ELSE "Comments: " \o comments_url

(***************************************************************************)
(* Spec: main from the call of fetch_top_stories to the end, for every     *)
(* keyword list, every answer and every failure of the remote API.         *)
(***************************************************************************)
KeywordLists == {<<>>, <<<<"a">>>>, <<<<"b">>, <<"a">>>>}

PipelineInit(shape) ==
    /\ pc = "fetch_top"
    /\ keywords \in KeywordLists
    /\ remote = shape
    /\ top_ids = <<>>
    /\ idx = 0
    /\ story_responses = <<>>
    /\ filtered_stories = <<>>
    /\ comment_results = <<>>
    /\ entries = <<>>
    /\ calls = <<>>
    /\ raised = None
    /\ feed_written = FALSE
    /\ text = <<>> /\ keyword = <<>> /\ matched = FALSE
    /\ IdleSource

Init == PipelineInit("conforming")

Call(op, id, outcome) == [op |-> op, id |-> id, failed |-> outcome.failed]

\* main: top_ids = fetch_top_stories(limit=100), then filter_stories is entered
FetchTopStories ==
    /\ pc = "fetch_top"
    /\ \E outcome \in {Failed(<<1>>)} \cup {Answered(ids) : ids \in SeqsOf(StoryIds, 0, MaxIds)} :
        /\ top_ids' = fetch_top_stories(outcome, Limit)
        /\ calls' = Append(calls, Call("topstories", 0, outcome))
    /\ idx' = 1
    /\ pc' = "filter"
    /\ UNCHANGED <<keywords, remote, story_responses, filtered_stories, comment_results,
                   entries, raised, feed_written, match_vars, source_vars>>

\* filter_stories: one turn of `for story_id in story_ids`
FilterStory ==
    /\ pc = "filter"
    /\ idx <= Len(top_ids)
    /\ \E outcome \in {Failed(EmptyDict)}
                      \cup {Answered(item) : item \in StoryItems(remote, top_ids[idx])} :
        LET story == fetch_story_details(outcome)
        IN  /\ calls' = Append(calls, Call("item", top_ids[idx], outcome))
            /\ story_responses' = Append(story_responses, story)
            /\ IF Skipped(story)
               THEN /\ idx' = idx + 1
                    /\ UNCHANGED <<pc, filtered_stories, raised>>
               ELSE IF BackfillRaises(story)
               THEN /\ raised' = "KeyError"
                    /\ pc' = "aborted"
                    /\ UNCHANGED <<idx, filtered_stories>>
               ELSE /\ filtered_stories' =
                        IF Selected(story.title, keywords)
                        THEN Append(filtered_stories, Backfilled(story))
                        ELSE filtered_stories
                    /\ idx' = idx + 1
                    /\ UNCHANGED <<pc, raised>>
    /\ UNCHANGED <<keywords, remote, top_ids, comment_results, entries, feed_written,
                   match_vars, source_vars>>

\* filter_stories returns; main goes on to generate_rss
FilterReturn ==
    /\ pc = "filter"
    /\ idx > Len(top_ids)
    /\ pc' = "generate"
    /\ idx' = 1
    /\ UNCHANGED <<keywords, remote, top_ids, story_responses, filtered_stories,
                   comment_results, entries, calls, raised, feed_written,
                   match_vars, source_vars>>

\* generate_rss: one turn of `for story in stories`
GenerateEntry ==
    /\ pc = "generate"
    /\ idx <= Len(filtered_stories)
    /\ LET story == filtered_stories[idx]
           comments_url == ItemUrl(story)
           entry == [id |-> IF Has(story, "id") THEN ToString(story.id) ELSE None,
                     title |-> story.title,
                     link |-> comments_url,
                     published |-> None,
                     summary |-> None]
       IN  IF ~Has(story, "time")
           THEN \* datetime.fromtimestamp(None) raises TypeError
                /\ entries' = Append(entries, entry)
                /\ raised' = "TypeError"
                /\ pc' = "aborted"
                /\ UNCHANGED <<idx, comment_results, calls>>
           ELSE \E outcome \in {Failed(EmptyDict)}
                               \cup (IF CommentRequests(story) = <<>> THEN {}
                                     ELSE {Answered(c) : c \in CommentItems(CommentRequests(story)[1])}) :
                    LET asked == CommentRequests(story)
                        comment == fetch_comment_details(outcome)
                        top_comment == fetch_top_comment(story, comment)
                    IN  /\ asked = <<>> => outcome.failed
                        /\ calls' = calls \o [k \in 1..Len(asked) |-> Call("item", asked[k], outcome)]
                        /\ comment_results' = Append(comment_results,
                               [story |-> story, asked |-> asked,
                                failed |-> asked # <<>> /\ outcome.failed,
                                comment |-> IF asked = <<>> THEN NoneDict ELSE comment,
                                returned |-> top_comment])
                        /\ entries' = Append(entries,
                               [entry EXCEPT !.published = ToString(story.time),
                                             !.summary = Summary(top_comment,
                                                                 Get(story, "url", None),
                                                                 comments_url)])
                        /\ idx' = idx + 1
                        /\ UNCHANGED <<pc, raised>>
    /\ UNCHANGED <<keywords, remote, top_ids, story_responses, filtered_stories,
                   feed_written, match_vars, source_vars>>

\* generate_rss: fg.rss_file(output_path); main logs "Done."
WriteFeed ==
    /\ pc = "generate"
    /\ idx > Len(filtered_stories)
    /\ feed_written' = TRUE
    /\ pc' = "done"
    /\ UNCHANGED <<keywords, remote, top_ids, idx, story_responses, filtered_stories,
                   comment_results, entries, calls, raised, match_vars, source_vars>>

Next == FetchTopStories \/ FilterStory \/ FilterReturn \/ GenerateEntry \/ WriteFeed

Spec == Init /\ [][Next]_vars

\* the run is one sequential process that is never suspended for good
LiveSpec == Spec /\ WF_vars(Next)

\* the same run against a remote that may answer with items of any shape
ShapeSpec == PipelineInit("arbitrary") /\ [][Next]_vars

(***************************************************************************)
(* The claims about the run.                                               *)
(***************************************************************************)
FilterReturned == pc \in {"generate", "done"}

\* a fetched record takes part in the result: it has a title, and the keywords
\* are empty or one of them matches the title
Qualifies(r) ==
    /\ Has(r, "title")
    /\ (keywords = <<>> \/ \E k \in 1..Len(keywords) : matches_keyword(r.title, keywords[k]))

\* the fetched records that qualify, in the order of their candidates
QualifyingResponses == SelectSeq(story_responses, Qualifies)

WithoutUrl(r) == [k \in DOMAIN r \ {"url"} |-> r[k]]

\* the result of filter_stories is, url aside, the qualifying records in candidate order
ResultIsQualifying ==
    /\ Len(story_responses) = Len(top_ids)
    /\ Len(filtered_stories) = Len(QualifyingResponses)
    /\ \A k \in 1..Len(filtered_stories) :
        WithoutUrl(filtered_stories[k]) = WithoutUrl(QualifyingResponses[k])

\* C1: filter_stories returns exactly the records of the candidates whose fetch
\* gave a titled record that the keywords accept (all of them when the keywords
\* are empty), in candidate order, nothing added, re-sorted or deduplicated.
C1_FilterResult == FilterReturned => ResultIsQualifying

\* C1's case: a repeated id whose two records are both kept, under a keyword
\* list whose first keyword matches neither title
C1_Witness ==
    /\ FilterReturned
    /\ top_ids = <<1, 1>>
    /\ keywords = <<<<"b">>, <<"a">>>>
    /\ Len(filtered_stories) = 2

\* what each fetch failure leaves behind
FailuresAbsorbed ==
    /\ raised = None /\ pc # "aborted"
    /\ (calls # <<>> /\ calls[1].failed) =>
            top_ids = <<>> /\ filtered_stories = <<>> /\ entries = <<>>
    /\ \A k \in 1..Len(story_responses) :
            calls[k + 1].failed => story_responses[k] = NoneDict
    /\ FilterReturned => ResultIsQualifying
    /\ \A k \in 1..Len(comment_results) :
            comment_results[k].failed =>
                /\ comment_results[k].returned = None
                /\ entries[k].summary \notin {None, ""}
    /\ pc = "done" => feed_written /\ Len(entries) = Len(filtered_stories)

\* C4: whatever fetches fail, the run does not abort and reaches feed emission;
\* a failed top-list fetch gives no candidates and an empty feed, a failed story
\* fetch an absent record for that id while the other candidates are fetched
\* and considered, a failed comment fetch an absent comment for that story.
C4_FailuresDoNotAbort == []FailuresAbsorbed /\ <>(pc = "done")

\* C4's case: the feed is written after a story fetch failed, another candidate
\* was selected and its comment fetch failed
C4_Witness ==
    /\ pc = "done"
    /\ Len(top_ids) = 2
    /\ calls[2].failed /\ ~calls[3].failed
    /\ Len(entries) = 1
    /\ comment_results[1].failed

\* C5: fetch_top_comment returns None for a story without kids, with empty
\* kids, when the fetch of the first kid fails or when that comment has no
\* text; otherwise the text of the comment kids[0]; it asks for one comment at
\* most, always kids[0].
C5_TopComment ==
    \A k \in 1..Len(comment_results) :
        LET c == comment_results[k]
            story == c.story
        IN  IF ~Has(story, "kids") \/ story.kids = <<>>
            THEN c.asked = <<>> /\ c.returned = None
            ELSE /\ c.asked = <<story.kids[1]>>
                 /\ IF c.failed \/ ~Has(c.comment, "text")
                    THEN c.returned = None
                    ELSE c.comment.id = story.kids[1] /\ c.returned = c.comment.text

\* C5's case: a story with two kids got the text of the first
C5_Witness ==
    \E k \in 1..Len(comment_results) :
        /\ Len(Kids(comment_results[k].story)) = 2
        /\ comment_results[k].returned = CommentText(Kids(comment_results[k].story)[1])

\* the link fallback of a story: its article when it has one that is not the
\* discussion page, else the discussion page
LinkFallback(story) ==
    LET discussion == HN_ITEM_URL \o ToString(story.id)
    IN  IF Has(story, "url") /\ story.url \notin {None, "", discussion}
        THEN "Article: " \o story.url
        ELSE "Comments: " \o discussion

\* C6 as stated: the summary is the top-comment text whenever fetch_top_comment
\* returns something other than None, the link fallback only when it returns
\* None, and never empty.
C6_SummaryUnlessNone ==
    \A k \in 1..Len(comment_results) :
        LET top == comment_results[k].returned
        IN  /\ entries[k].summary = IF top # None THEN top
                                    ELSE LinkFallback(comment_results[k].story)
            /\ entries[k].summary # ""

\* C6 amended: the summary is the top-comment text whenever fetch_top_comment
\* returns a non-empty text, and the link fallback when it returns None or the
\* empty text; it is never empty.
C6_SummaryUnlessEmpty ==
    \A k \in 1..Len(comment_results) :
        LET top == comment_results[k].returned
        IN  /\ entries[k].summary = IF top \notin {None, ""} THEN top
                                    ELSE LinkFallback(comment_results[k].story)
            /\ entries[k].summary \notin {None, ""}

\* C6's cases: an empty top comment replaced by the article link, and a story
\* whose url is its own discussion page summarised as "Comments: ..."
C6_Witness ==
    /\ \E k \in 1..Len(entries) :
        /\ comment_results[k].returned = ""
        /\ entries[k].summary = "Article: " \o ArticleUrl
    /\ \E k \in 1..Len(entries) :
        /\ comment_results[k].returned = None
        /\ filtered_stories[k].url = ItemUrl(filtered_stories[k])
        /\ entries[k].summary = "Comments: " \o ItemUrl(filtered_stories[k])

\* C7: a resolved record that lacks id, title or time is skipped by
\* filter_stories without an error and never reaches generate_rss.
C7_MissingFieldSkipped ==
    /\ raised # "KeyError"
    /\ \A k \in 1..Len(filtered_stories) :
        {"id", "title", "time"} \subseteq DOMAIN filtered_stories[k]

\* C8: every record filter_stories returns has a usable url: its own when the
\* resolved record had one, else the discussion link built from its id; none
\* has an absent, null or empty url.
C8_UsableUrl ==
    FilterReturned =>
        \A k \in 1..Len(filtered_stories) :
            LET got == filtered_stories[k]
                was == QualifyingResponses[k]
            IN  /\ Has(got, "url")
                /\ got.url \notin {None, ""}
                /\ got.url = IF Has(was, "url") /\ was.url \notin {None, ""}
                             THEN was.url
                             ELSE HN_ITEM_URL \o ToString(got.id)

\* the comment fetches the claim allows for these stories: one for each story
\* with kids, for its first kid
RECURSIVE FirstKids(_)
FirstKids(stories) ==
    IF stories = <<>> THEN <<>>
    ELSE (IF Has(Head(stories), "kids") /\ Head(stories).kids # <<>>
          THEN <<<<"item", Head(stories).kids[1]>>>>
          ELSE <<>>) \o FirstKids(Tail(stories))

Requests == [k \in 1..Len(calls) |-> <<calls[k].op, calls[k].id>>]
CandidateRequests == [k \in 1..Len(top_ids) |-> <<"item", top_ids[k]>>]

\* C10: the requests are made one after the other in this order: the top list;
\* one story fetch per candidate, in candidate order; then, after all of them,
\* one comment fetch at most per selected story, in output order; the feed is
\* written only after the last of them, and a story that was filtered out
\* causes no comment fetch.
C10_RequestOrder ==
    /\ pc = "fetch_top" => calls = <<>>
    /\ pc = "filter" =>
        Requests = <<<<"topstories", 0>>>> \o SubSeq(CandidateRequests, 1, Len(story_responses))
    /\ pc = "generate" =>
        Requests = <<<<"topstories", 0>>>> \o CandidateRequests
                   \o FirstKids(SubSeq(filtered_stories, 1, Len(entries)))
    /\ feed_written <=> pc = "done"
    /\ pc = "done" =>
        Requests = <<<<"topstories", 0>>>> \o CandidateRequests \o FirstKids(filtered_stories)

\* C10's case: the feed is written after two story fetches and one comment
\* fetch, the story that was filtered out having kids of its own
C10_Witness ==
    /\ pc = "done"
    /\ Len(calls) = 4
    /\ Len(filtered_stories) = 1
    /\ \E k \in 1..2 : Has(story_responses[k], "kids") /\ ~Qualifies(story_responses[k])
                       /\ Has(story_responses[k], "title")

====
